---- MODULE Spec2Model ----
(***************************************************************************)
(* Model of api/convert-test.py: the rewriter convert_test_file, which     *)
(* applies four regular-expression substitutions in a fixed order, and the *)
(* main routine that reads one file, converts it and writes another.       *)
(*                                                                         *)
(* Text is a sequence of one-character strings.  The regular expressions   *)
(* of the source are kept as data (sequences of pattern items) and are     *)
(* run by a small matcher that follows Python's re.sub: leftmost,          *)
(* non-overlapping matches, found in one left-to-right scan.               *)
(***************************************************************************)
EXTENDS Naturals, Sequences, FiniteSets

(***************************************************************************)
(* Literal text of the patterns and of the replacements.                   *)
(***************************************************************************)
IMPORT_LINE ==
    <<"i","m","p","o","r","t"," ","r","e","q","u","e","s","t"," ","f","r","o","m"," ","'",
      "s","u","p","e","r","t","e","s","t","'",";","\n">>

PREFIX ==
    <<"a","w","a","i","t"," ","r","e","q","u","e","s","t","(","a","p","p",".","f","e","t",
      "c","h"," ","a","s"," ","a","n","y",")">>

DOT_GET ==
    <<".","g","e","t","(">>

DOT_SET ==
    <<".","s","e","t","(">>

DOT_POST ==
    <<".","p","o","s","t","(">>

DOT_SEND ==
    <<".","s","e","n","d","(">>

CLOSE ==
    <<")">>

CLOSE_SEMI ==
    <<")",";">>

REPL_HEAD ==
    <<"a","w","a","i","t"," ","a","p","p",".","r","e","q","u","e","s","t","(">>

REPL_GET_HEADERS ==
    <<","," ","{"," ","m","e","t","h","o","d",":"," ","\"","G","E","T","\"",","," ","h","e",
      "a","d","e","r","s",":"," ">>

REPL_END ==
    <<" ","}",")",";">>

REPL_GET ==
    <<","," ","{"," ","m","e","t","h","o","d",":"," ","\"","G","E","T","\""," ","}",")",";">>

REPL_POST_HEADERS ==
    <<","," ","{"," ","m","e","t","h","o","d",":"," ","\"","P","O","S","T","\"",","," ","h",
      "e","a","d","e","r","s",":"," ">>

REPL_POST_BODY ==
    <<","," ","b","o","d","y",":"," ","J","S","O","N",".","s","t","r","i","n","g","i","f",
      "y","(">>

REPL_POST_END ==
    <<")"," ","}",")",";">>

CONFIRMATION ==
    <<"C","o","n","v","e","r","s","i","o","n"," ","c","o","m","p","l","e","t","e","!">>

(***************************************************************************)
(* Text near the patterns: the import declaration without its line break,   *)
(* and the verbs no rule names.                                             *)
(***************************************************************************)
IMPORT_NO_BREAK ==
    <<"i","m","p","o","r","t"," ","r","e","q","u","e","s","t"," ","f","r","o","m"," ","'",
      "s","u","p","e","r","t","e","s","t","'",";">>

DOT_PUT ==
    <<".","p","u","t","(">>

DOT_DELETE ==
    <<".","d","e","l","e","t","e","(">>

DOT_PATCH ==
    <<".","p","a","t","c","h","(">>

LINE_BREAK == <<"\n">>

(***************************************************************************)
(* Pattern and replacement items.                                          *)
(*   Lit(v)  the literal text v                                            *)
(*   Ws      \s*       (greedy run of white space)                         *)
(*   Arg     ([^\)]+)  (capturing group: one or more characters, no ")")   *)
(*   Grp(n)  \n in a replacement template                                  *)
(***************************************************************************)
Lit(v) == [t |-> "lit", v |-> v]

Ws == [t |-> "ws"]

Arg == [t |-> "arg"]

Grp(n) == [t |-> "grp", n |-> n]

\* The characters \s matches, among those a TLA+ string can write.
WhiteSpace == {" ", "\t", "\n", "\r", "\f"}

\* Faulty variant: the pattern leaves out the line break.
IMPORT_PATTERN_NO_BREAK == <<Lit(IMPORT_NO_BREAK)>>

\* r"import request from 'supertest';\n"
IMPORT_PATTERN == <<Lit(IMPORT_LINE)>>

\* Faulty variant: the pattern names the verb delete.
GET_SET_PATTERN_DELETE ==
    <<Lit(PREFIX), Ws, Lit(DOT_DELETE), Arg, Lit(CLOSE), Ws, Lit(DOT_SET), Arg,
      Lit(CLOSE_SEMI)>>

\* r'await request\(app\.fetch as any\)\s*\.get\(([^\)]+)\)\s*\.set\(([^\)]+)\);'
GET_SET_PATTERN ==
    <<Lit(PREFIX), Ws, Lit(DOT_GET), Arg, Lit(CLOSE), Ws, Lit(DOT_SET), Arg,
      Lit(CLOSE_SEMI)>>

\* r'await app.request(\1, { method: "GET", headers: \2 });'
GET_SET_REPL ==
    <<Lit(REPL_HEAD), Grp(1), Lit(REPL_GET_HEADERS), Grp(2), Lit(REPL_END)>>

\* r'await request\(app\.fetch as any\)\.get\(([^\)]+)\);'
GET_PATTERN == <<Lit(PREFIX), Lit(DOT_GET), Arg, Lit(CLOSE_SEMI)>>

\* r'await app.request(\1, { method: "GET" });'
GET_REPL == <<Lit(REPL_HEAD), Grp(1), Lit(REPL_GET)>>

\* r'await request\(app\.fetch as any\)\s*\.post\(([^\)]+)\)\s*\.set\(([^\)]+)\)\s*\.send\(([^\)]+)\);'
POST_PATTERN ==
    <<Lit(PREFIX), Ws, Lit(DOT_POST), Arg, Lit(CLOSE), Ws, Lit(DOT_SET), Arg,
      Lit(CLOSE), Ws, Lit(DOT_SEND), Arg, Lit(CLOSE_SEMI)>>

\* Faulty variant: the body is passed on without JSON.stringify.
POST_REPL_BARE_BODY ==
    <<Lit(REPL_HEAD), Grp(1), Lit(REPL_POST_HEADERS), Grp(2), Lit(<<",", " ", "b", "o", "d", "y", ":", " ">>),
      Grp(3), Lit(REPL_END)>>

\* r'await app.request(\1, { method: "POST", headers: \2, body: JSON.stringify(\3) });'
POST_REPL ==
    <<Lit(REPL_HEAD), Grp(1), Lit(REPL_POST_HEADERS), Grp(2), Lit(REPL_POST_BODY),
      Grp(3), Lit(REPL_POST_END)>>

(***************************************************************************)
(* The matcher.  Every greedy item of the patterns above is followed by a  *)
(* literal whose first character the item cannot consume (\s* by ".",      *)
(* [^\)]+ by ")"), so the longest run is the only run that can lead to a   *)
(* match and no backtracking is needed.                                    *)
(***************************************************************************)
\* lit occurs in s at position pos
StartsWith(s, pos, lit) ==
    /\ pos + Len(lit) <= Len(s) + 1
    /\ \A i \in 1..Len(lit) : s[pos + i - 1] = lit[i]

\* the first position from pos on that holds no white space
SkipSpace(s, pos) ==
    LET stop == {p \in pos..Len(s) : s[p] \notin WhiteSpace}
    IN  IF stop = {} THEN Len(s) + 1 ELSE CHOOSE p \in stop : \A q \in stop : p <= q

\* the first position from pos on that holds ")" (Len(s) + 1 if none)
ArgEnd(s, pos) ==
    LET stop == {p \in pos..Len(s) : s[p] = ")"}
    IN  IF stop = {} THEN Len(s) + 1 ELSE CHOOSE p \in stop : \A q \in stop : p <= q

NoMatch == [ok |-> FALSE, end |-> 0, groups |-> <<>>]

RECURSIVE MatchFrom(_, _, _, _, _)
\* match items i.. of pat against s from pos; end is the position after the match
MatchFrom(pat, i, s, pos, groups) ==
    IF i > Len(pat) THEN [ok |-> TRUE, end |-> pos, groups |-> groups]
    ELSE IF pat[i].t = "lit" THEN
        IF StartsWith(s, pos, pat[i].v)
        THEN MatchFrom(pat, i + 1, s, pos + Len(pat[i].v), groups)
        ELSE NoMatch
    ELSE IF pat[i].t = "ws" THEN MatchFrom(pat, i + 1, s, SkipSpace(s, pos), groups)
    ELSE LET e == ArgEnd(s, pos)
         IN  IF e > pos
             THEN MatchFrom(pat, i + 1, s, e, Append(groups, SubSeq(s, pos, e - 1)))
             ELSE NoMatch

\* pattern.match(s, pos)
MatchAt(pat, s, pos) == MatchFrom(pat, 1, s, pos, <<>>)

RECURSIVE Expand(_, _, _)
\* match.expand(repl): the template with \n replaced by group n
Expand(repl, i, groups) ==
    IF i > Len(repl) THEN <<>>
    ELSE (IF repl[i].t = "lit" THEN repl[i].v ELSE groups[repl[i].n])
         \o Expand(repl, i + 1, groups)

\* the start of the leftmost match from pos on, or 0
NextMatch(pat, s, pos) ==
    LET starts == {p \in pos..Len(s) : MatchAt(pat, s, p).ok}
    IN  IF starts = {} THEN 0 ELSE CHOOSE p \in starts : \A q \in starts : p <= q

RECURSIVE SubFrom(_, _, _, _, _)
\* the scan of re.sub from pos: text up to the leftmost match is copied, the
\* match is replaced, and the scan goes on after it; left is the number of
\* replacements still allowed, or 0 for no limit
SubFrom(pat, repl, s, pos, left) ==
    LET q == NextMatch(pat, s, pos)
    IN  IF q = 0 THEN SubSeq(s, pos, Len(s))
        ELSE LET m == MatchAt(pat, s, q)
             IN  SubSeq(s, pos, q - 1) \o Expand(repl, 1, m.groups)
                 \o (IF left = 1 THEN SubSeq(s, m.end, Len(s))
                     ELSE SubFrom(pat, repl, s, m.end, IF left = 0 THEN 0 ELSE left - 1))

\* re.sub(pattern, repl, string, count); count = 0 replaces every match
re_sub(pat, repl, s, count) == SubFrom(pat, repl, s, 1, count)

\* re.search(pattern, string) is not None
re_search(pat, s) == \E pos \in 1..Len(s) : MatchAt(pat, s, pos).ok

(***************************************************************************)
(* convert_test_file: the four substitutions, in the order of the source.  *)
(***************************************************************************)
\* Faulty variant: the line is emptied and its line break stays.
RemoveImportLeaveBreak(s) == re_sub(IMPORT_PATTERN, <<Lit(LINE_BREAK)>>, s, 0)

\* Faulty variant: count=1, only the first occurrence is deleted.
RemoveFirstImport(s) == re_sub(IMPORT_PATTERN, <<>>, s, 1)

\* content = re.sub(r"import request from 'supertest';\n", '', content)
RemoveImport(s) == re_sub(IMPORT_PATTERN, <<>>, s, 0)

\* Faulty variant: count=1, only the first chain is rewritten.
ConvertFirstGetSet(s) == re_sub(GET_SET_PATTERN, GET_SET_REPL, s, 1)

\* GET requests with .set()
ConvertGetSet(s) == re_sub(GET_SET_PATTERN, GET_SET_REPL, s, 0)

\* GET requests without .set()
ConvertGet(s) == re_sub(GET_PATTERN, GET_REPL, s, 0)

\* Faulty variant: count=1, only the first chain is rewritten.
ConvertFirstPost(s) == re_sub(POST_PATTERN, POST_REPL, s, 1)

\* POST requests with .set() and .send()
ConvertPost(s) == re_sub(POST_PATTERN, POST_REPL, s, 0)

convert_test_file(s) == ConvertPost(ConvertGet(ConvertGetSet(RemoveImport(s))))

(***************************************************************************)
(* Input documents.  A document is a sequence of pieces; the text of the   *)
(* input file is the concatenation of their renderings.  A piece is plain  *)
(* text or a legacy call chain                                             *)
(*   PREFIX ws verb args[1] ")" [ws ".set(" args[2] ")"]                   *)
(*                              [ws ".send(" args[3] ")"] ";"              *)
(***************************************************************************)
\* the most pieces in a document
MaxPieces == 3

PATH_A ==
    <<"'","/","a","'">>

PATH_B ==
    <<"'","/","b","'">>

BREAK_INDENT ==
    <<"\n"," "," ">>

STATEMENT ==
    <<"x"," ","="," ","1",";","\n">>

PREFIX_UNCLOSED ==
    <<"a","w","a","i","t"," ","r","e","q","u","e","s","t","(","a","p","p",".","f","e","t",
      "c","h"," ","a","s"," ","a","n","y">>

OTHER_ADAPTER ==
    <<"a","w","a","i","t"," ","r","e","q","u","e","s","t","(","a","p","p",")",".","g","e",
      "t","(","'","/","a","'",")",";">>

BARE_CALLS ==
    <<".","g","e","t","(","'","/","a","'",")",".","s","e","t","(","h",")",";">>

NONE == <<>>

ARG_H == <<"h">>

ARG_K == <<"k">>

ARG_BODY == <<"{", "n", ":", "1", "}">>

Text(v) == [k |-> "text", v |-> v]

Chain(verb, ws, args) == [k |-> "chain", verb |-> verb, ws |-> ws, args |-> args]

Render(p) ==
    IF p.k = "text" THEN p.v
    ELSE PREFIX \o p.ws \o p.verb \o p.args[1] \o CLOSE
         \o (IF Len(p.args) >= 2 THEN p.ws \o DOT_SET \o p.args[2] \o CLOSE ELSE <<>>)
         \o (IF Len(p.args) >= 3 THEN p.ws \o DOT_SEND \o p.args[3] \o CLOSE ELSE <<>>)
         \o <<";">>

RECURSIVE Flatten(_)
Flatten(d) == IF d = <<>> THEN <<>> ELSE Render(Head(d)) \o Flatten(Tail(d))

\* every document of at most MaxPieces pieces drawn from S
DocsOver(S) == UNION {[1..n -> S] : n \in 0..MaxPieces}

\* documents around the legacy import line
ImportPieces ==
    { Text(IMPORT_LINE), Text(IMPORT_NO_BREAK), Text(LINE_BREAK), Text(STATEMENT),
      Chain(DOT_GET, NONE, <<PATH_A>>) }

\* documents of GET chains, with and without headers
GetPieces ==
    { Chain(DOT_GET, NONE, <<PATH_A, ARG_H>>),
      Chain(DOT_GET, BREAK_INDENT, <<PATH_B, ARG_K>>),
      Chain(DOT_GET, NONE, <<NONE, ARG_H>>),
      Chain(DOT_GET, NONE, <<PATH_A>>),
      Chain(DOT_GET, BREAK_INDENT, <<PATH_B>>),
      Text(PREFIX \o DOT_GET),
      Text(STATEMENT) }

\* documents of POST chains
PostPieces ==
    { Chain(DOT_POST, NONE, <<PATH_A, ARG_H, ARG_BODY>>),
      Chain(DOT_POST, BREAK_INDENT, <<PATH_B, ARG_K, ARG_H>>),
      Chain(DOT_POST, NONE, <<PATH_A, ARG_H, NONE>>),
      Chain(DOT_POST, NONE, <<PATH_A, ARG_H>>),
      Text(STATEMENT) }

\* documents of chains with other verbs
VerbPieces ==
    { Chain(DOT_PUT, NONE, <<PATH_A, ARG_H, ARG_BODY>>),
      Chain(DOT_DELETE, BREAK_INDENT, <<PATH_B, ARG_K>>),
      Chain(DOT_PATCH, NONE, <<PATH_A, ARG_H, ARG_BODY>>),
      Chain(DOT_DELETE, NONE, <<PATH_A>>),
      Chain(DOT_GET, NONE, <<PATH_A>>),
      Text(STATEMENT) }

\* documents of text that is close to the legacy idiom
CleanPieces ==
    { Text(IMPORT_NO_BREAK), Text(OTHER_ADAPTER), Text(BARE_CALLS),
      Text(PREFIX_UNCLOSED), Text(CLOSE \o DOT_GET \o PATH_A \o CLOSE_SEMI),
      Text(REPL_HEAD \o PATH_A \o REPL_GET) }

\* a few pieces of every kind
MixedPieces ==
    { Text(IMPORT_LINE), Text(IMPORT_NO_BREAK), Text(LINE_BREAK),
      Chain(DOT_GET, BREAK_INDENT, <<PATH_A, ARG_H>>),
      Chain(DOT_GET, NONE, <<PATH_B>>),
      Chain(DOT_POST, NONE, <<PATH_A, ARG_H, ARG_BODY>>),
      Text(PREFIX \o DOT_GET) }

(***************************************************************************)
(* The main routine.                                                       *)
(***************************************************************************)
\* what the output file holds before the run
OLD_OUTPUT == <<"o", "l", "d">>

VARIABLES
    doc,        \* the pieces of the input file
    pc,         \* the statement the run is at
    content,    \* main's content, as read
    work,       \* convert_test_file's content, rebound by each rule
    converted,  \* main's converted
    outFile,    \* text of the output file
    held,       \* the files now open
    stdout,     \* lines printed
    events,     \* the file and console operations so far, in order
    failed      \* the statement that raised, or "none"

vars == <<doc, pc, content, work, converted, outFile, held, stdout, events, failed>>

\* text of the input file (the run never writes it)
inFile == Flatten(doc)

InitWith(docs) ==
    /\ doc \in docs
    /\ pc = "open_in"
    /\ content = <<>>
    /\ work = <<>>
    /\ converted = <<>>
    /\ outFile = OLD_OUTPUT
    /\ held = {}
    /\ stdout = <<>>
    /\ events = <<>>
    /\ failed = "none"

Raise(at) ==
    /\ pc' = "failed"
    /\ failed' = at

\* with open(<input>, 'r') as f:
OpenInput ==
    /\ pc = "open_in"
    /\ pc' = "read"
    /\ held' = held \cup {"in"}
    /\ events' = Append(events, "open_in")
    /\ UNCHANGED <<doc, content, work, converted, outFile, stdout, failed>>

\* open() raises: the file is missing or unreadable
OpenInputFail ==
    /\ pc = "open_in"
    /\ Raise("open_in")
    /\ UNCHANGED <<doc, content, work, converted, outFile, held, stdout, events>>

\* content = f.read()
Read ==
    /\ pc = "read"
    /\ content' = inFile
    /\ pc' = "close_in"
    /\ events' = Append(events, "read")
    /\ UNCHANGED <<doc, work, converted, outFile, held, stdout, failed>>

\* f.read() raises; the with statement closes the file on the way out
ReadFail ==
    /\ pc = "read"
    /\ Raise("read")
    /\ held' = held \ {"in"}
    /\ UNCHANGED <<doc, content, work, converted, outFile, stdout, events>>

\* Faulty variant: the input file is opened without with and never closed.
CloseInputLeaked ==
    /\ pc = "close_in"
    /\ pc' = "rule1"
    /\ events' = Append(events, "close_in")
    /\ UNCHANGED <<doc, content, work, converted, outFile, held, stdout, failed>>

\* the with block ends
CloseInput ==
    /\ pc = "close_in"
    /\ held' = held \ {"in"}
    /\ pc' = "rule1"
    /\ events' = Append(events, "close_in")
    /\ UNCHANGED <<doc, content, work, converted, outFile, stdout, failed>>

\* convert_test_file(content): rule 1
RemoveImportStep ==
    /\ pc = "rule1"
    /\ work' = RemoveImport(content)
    /\ pc' = "rule2"
    /\ UNCHANGED <<doc, content, converted, outFile, held, stdout, events, failed>>

\* rule 2
ConvertGetSetStep ==
    /\ pc = "rule2"
    /\ work' = ConvertGetSet(work)
    /\ pc' = "rule3"
    /\ UNCHANGED <<doc, content, converted, outFile, held, stdout, events, failed>>

\* rule 3
ConvertGetStep ==
    /\ pc = "rule3"
    /\ work' = ConvertGet(work)
    /\ pc' = "rule4"
    /\ UNCHANGED <<doc, content, converted, outFile, held, stdout, events, failed>>

\* rule 4, and return content: converted = convert_test_file(content)
ConvertPostStep ==
    /\ pc = "rule4"
    /\ work' = ConvertPost(work)
    /\ converted' = work'
    /\ pc' = "open_out"
    /\ events' = Append(events, "transform")
    /\ UNCHANGED <<doc, content, outFile, held, stdout, failed>>

\* with open(<output>, 'w') as f: the file is created or truncated
OpenOutput ==
    /\ pc = "open_out"
    /\ outFile' = <<>>
    /\ held' = held \cup {"out"}
    /\ pc' = "write"
    /\ events' = Append(events, "open_out")
    /\ UNCHANGED <<doc, content, work, converted, stdout, failed>>

\* Faulty variant: the output is emptied before the failure shows.
OpenOutputFailTruncated ==
    /\ pc = "open_out"
    /\ Raise("open_out")
    /\ outFile' = <<>>
    /\ UNCHANGED <<doc, content, work, converted, held, stdout, events>>

\* open() raises: the location is not writable; nothing is truncated
OpenOutputFail ==
    /\ pc = "open_out"
    /\ Raise("open_out")
    /\ UNCHANGED <<doc, content, work, converted, outFile, held, stdout, events>>

\* f.write(converted)
Write ==
    /\ pc = "write"
    /\ outFile' = converted
    /\ pc' = "close_out"
    /\ events' = Append(events, "write")
    /\ UNCHANGED <<doc, content, work, converted, held, stdout, failed>>

\* f.write() raises part-way; the with statement closes the file
WriteFail ==
    /\ pc = "write"
    /\ \E n \in {0, Len(converted) \div 2} : outFile' = SubSeq(converted, 1, n)
    /\ Raise("write")
    /\ held' = held \ {"out"}
    /\ UNCHANGED <<doc, content, work, converted, stdout, events>>

\* the with block ends
CloseOutput ==
    /\ pc = "close_out"
    /\ held' = held \ {"out"}
    /\ pc' = "print"
    /\ events' = Append(events, "close_out")
    /\ UNCHANGED <<doc, content, work, converted, outFile, stdout, failed>>

\* print("Conversion complete!")
PrintDone ==
    /\ pc = "print"
    /\ stdout' = Append(stdout, CONFIRMATION)
    /\ pc' = "done"
    /\ events' = Append(events, "print")
    /\ UNCHANGED <<doc, content, work, converted, outFile, held, failed>>

Next ==
    \/ OpenInput
    \/ OpenInputFail
    \/ Read
    \/ ReadFail
    \/ CloseInput
    \/ RemoveImportStep
    \/ ConvertGetSetStep
    \/ ConvertGetStep
    \/ ConvertPostStep
    \/ OpenOutput
    \/ OpenOutputFail
    \/ Write
    \/ WriteFail
    \/ CloseOutput
    \/ PrintDone

Init == InitWith(DocsOver(MixedPieces))

Spec == Init /\ [][Next]_vars

SpecImport == InitWith(DocsOver(ImportPieces)) /\ [][Next]_vars

SpecGet == InitWith(DocsOver(GetPieces)) /\ [][Next]_vars

SpecPost == InitWith(DocsOver(PostPieces)) /\ [][Next]_vars

SpecVerbs == InitWith(DocsOver(VerbPieces)) /\ [][Next]_vars

SpecClean == InitWith(DocsOver(CleanPieces)) /\ [][Next]_vars

(***************************************************************************)
(* Vocabulary of the properties.  None of it uses the scan of re.sub.      *)
(***************************************************************************)
\* the positions at which lit occurs in s
Occurrences(lit, s) == {p \in 1..Len(s) : StartsWith(s, p, lit)}

Count(lit, s) == Cardinality(Occurrences(lit, s))

\* s without the n characters from position p on
Cut(s, p, n) == SubSeq(s, 1, p - 1) \o SubSeq(s, p + n, Len(s))

Least(S) == CHOOSE p \in S : \A q \in S : p <= q

Greatest(S) == CHOOSE p \in S : \A q \in S : q <= p

\* s without its first import line
CutFirstImport(s) == Cut(s, Least(Occurrences(IMPORT_LINE, s)), Len(IMPORT_LINE))

RECURSIVE CutAll(_, _, _)
\* s without the n characters at each position of P, cut from the right
CutAll(s, P, n) ==
    IF P = {} THEN s ELSE CutAll(Cut(s, Greatest(P), n), P \ {Greatest(P)}, n)

IsPrefix(a, b) == Len(a) <= Len(b) /\ SubSeq(b, 1, Len(a)) = a

Chars(s) == {s[i] : i \in 1..Len(s)}

Chains == {i \in 1..Len(doc) : doc[i].k = "chain"}

\* convert_test_file has returned and nothing later has run
Returned == pc = "open_out"

\* piece p is a chain of this verb with n arguments, none holding ")"
IsChain(p, verb, n) ==
    /\ p.k = "chain"
    /\ p.verb = verb
    /\ Len(p.args) = n
    /\ \A j \in 1..n : ")" \notin Chars(p.args[j])

\* the same, with no argument empty
IsFullChain(p, verb, n) == IsChain(p, verb, n) /\ \A j \in 1..n : p.args[j] # <<>>

\* the text the properties promise for a piece
Promised(p) ==
    IF p.k = "text" THEN p.v
    ELSE IF p.verb = DOT_GET /\ Len(p.args) = 2
        THEN REPL_HEAD \o p.args[1] \o REPL_GET_HEADERS \o p.args[2] \o REPL_END
    ELSE IF p.verb = DOT_GET /\ Len(p.args) = 1
        THEN REPL_HEAD \o p.args[1] \o REPL_GET
    ELSE IF p.verb = DOT_POST /\ Len(p.args) = 3
        THEN REPL_HEAD \o p.args[1] \o REPL_POST_HEADERS \o p.args[2]
             \o REPL_POST_BODY \o p.args[3] \o REPL_POST_END
    ELSE Render(p)

RECURSIVE PromisedText(_)
PromisedText(d) == IF d = <<>> THEN <<>> ELSE Promised(Head(d)) \o PromisedText(Tail(d))

\* the legacy idiom occurs in the document only as its chain pieces
OnlyTheChains ==
    /\ Count(IMPORT_LINE, content) = 0
    /\ Count(PREFIX, content) = Cardinality(Chains)

(***************************************************************************)
(* C1  Import removal correctness.                                         *)
(***************************************************************************)
\* the input holds exactly one import line, and the text that remains
\* without it holds no legacy prefix for another rule to rewrite
SoleImport ==
    /\ Returned
    /\ Count(IMPORT_LINE, content) = 1
    /\ Count(PREFIX, CutFirstImport(content)) = 0

\* C1 as stated: with exactly one import line in the input, the output holds
\* no import line and equals the input with that line deleted.
C1_AsStated ==
    SoleImport =>
        /\ Count(IMPORT_LINE, converted) = 0
        /\ converted = CutFirstImport(content)

\* C1 amended: with exactly one import line in the input, the output equals
\* the input with that line and its line break deleted (it can hold the line
\* again, where the text before and after the deleted line joins into one).
C1_SoleImportDeleted == SoleImport => converted = CutFirstImport(content)

C1_Witness ==
    /\ SoleImport
    /\ Len(doc) = 3
    /\ doc[2] = Text(IMPORT_LINE)
    /\ Count(IMPORT_LINE, converted) = 0
    /\ converted = STATEMENT \o STATEMENT

(***************************************************************************)
(* C5  Which occurrences of the import line rule 1 deletes.                *)
(***************************************************************************)
\* rule 1 has just run: work is its result on content
AfterRemoveImport == pc = "rule2"

\* C5 as stated: of two or more import lines rule 1 deletes the first only,
\* every later one stays; with none, rule 1 changes nothing.
C5_AsStated ==
    AfterRemoveImport =>
        /\ Count(IMPORT_LINE, content) >= 2 =>
              /\ work = CutFirstImport(content)
              /\ Count(IMPORT_LINE, work) >= 1
        /\ Count(IMPORT_LINE, content) = 0 => work = content

\* C5 amended: rule 1 deletes every occurrence of the import line in its
\* input, each with its line break; with none, rule 1 changes nothing.
C5_EveryImportDeleted ==
    AfterRemoveImport =>
        /\ work = CutAll(content, Occurrences(IMPORT_LINE, content), Len(IMPORT_LINE))
        /\ Count(IMPORT_LINE, content) = 0 => work = content

C5_Witness ==
    /\ AfterRemoveImport
    /\ Count(IMPORT_LINE, content) >= 2
    /\ Len(content) > Len(work) + Len(IMPORT_LINE)
    /\ work # <<>>

(***************************************************************************)
(* C2  GET with headers, every occurrence.                                 *)
(***************************************************************************)
\* C2 as stated: in a document of GET-with-headers chains whose P and H hold
\* no ")" and of text around them, every chain is replaced by the single call
\* with its own P and H, and the text around the chains is unchanged.
C2_AsStated ==
    ( /\ Returned
      /\ OnlyTheChains
      /\ Chains # {}
      /\ \A i \in Chains : IsChain(doc[i], DOT_GET, 2) )
    => converted = PromisedText(doc)

\* C2 amended: the same for chains whose P and H are not empty.
C2_EveryGetSetRewritten ==
    ( /\ Returned
      /\ OnlyTheChains
      /\ Chains # {}
      /\ \A i \in Chains : IsFullChain(doc[i], DOT_GET, 2) )
    => converted = PromisedText(doc)

C2_Witness ==
    /\ Returned
    /\ OnlyTheChains
    /\ Len(doc) = 3
    /\ doc[1] = Chain(DOT_GET, NONE, <<PATH_A, ARG_H>>)
    /\ doc[2] = Text(STATEMENT)
    /\ doc[3] = Chain(DOT_GET, BREAK_INDENT, <<PATH_B, ARG_K>>)
    /\ converted = PromisedText(doc)
    /\ converted # content

(***************************************************************************)
(* C3  GET without headers takes the chains GET with headers takes.        *)
(***************************************************************************)
\* the GET-with-headers rule rewrites X.set(h); for the X of chain p
HeadersRuleTakes(p) ==
    ConvertGetSet(PREFIX \o p.ws \o DOT_GET \o p.args[1] \o CLOSE
                  \o DOT_SET \o ARG_H \o CLOSE_SEMI)
        = REPL_HEAD \o p.args[1] \o REPL_GET_HEADERS \o ARG_H \o REPL_END

\* C3: when the document is one chain X; and the GET-with-headers rule
\* rewrites X.set(H);, the output is the single call with method GET only.
C3_SameShapeWithoutHeaders ==
    ( /\ Returned
      /\ Len(doc) = 1
      /\ IsChain(doc[1], DOT_GET, 1)
      /\ HeadersRuleTakes(doc[1]) )
    => converted = REPL_HEAD \o doc[1].args[1] \o REPL_GET

(***************************************************************************)
(* C4  POST with headers and body.                                         *)
(***************************************************************************)
\* C4 as stated: in a document of POST chains whose P, H and B hold no ")"
\* and of text around them, every chain is replaced by the single call with
\* P, H and JSON.stringify(B), and the text around the chains is unchanged.
C4_AsStated ==
    ( /\ Returned
      /\ OnlyTheChains
      /\ Chains # {}
      /\ \A i \in Chains : IsChain(doc[i], DOT_POST, 3) )
    => converted = PromisedText(doc)

\* C4 amended: the same for chains whose P, H and B are not empty.
C4_EveryPostRewritten ==
    ( /\ Returned
      /\ OnlyTheChains
      /\ Chains # {}
      /\ \A i \in Chains : IsFullChain(doc[i], DOT_POST, 3) )
    => converted = PromisedText(doc)

C4_Witness ==
    /\ Returned
    /\ OnlyTheChains
    /\ Len(doc) = 3
    /\ doc[1] = Text(STATEMENT)
    /\ doc[2] = Chain(DOT_POST, NONE, <<PATH_A, ARG_H, ARG_BODY>>)
    /\ doc[3] = Text(STATEMENT)
    /\ converted = STATEMENT \o PromisedText(<<doc[2]>>) \o STATEMENT
    /\ converted # content

(***************************************************************************)
(* C6  Chains with other verbs pass through.                               *)
(***************************************************************************)
\* after the prefix at p and white space comes .put( .delete( or .patch(
OtherVerbAt(s, p) ==
    LET q == SkipSpace(s, p + Len(PREFIX))
    IN  \E verb \in {DOT_PUT, DOT_DELETE, DOT_PATCH} : StartsWith(s, q, verb)

\* C6: an input with no import line, in which every legacy prefix is followed
\* by the verb put, delete or patch, is returned unchanged.
C6_OtherVerbsPassThrough ==
    ( /\ Returned
      /\ Count(IMPORT_LINE, content) = 0
      /\ \A p \in Occurrences(PREFIX, content) : OtherVerbAt(content, p) )
    => converted = content

C6_Witness ==
    /\ Returned
    /\ Len(doc) = 3
    /\ doc[1] = Chain(DOT_PUT, NONE, <<PATH_A, ARG_H, ARG_BODY>>)
    /\ doc[2] = Chain(DOT_DELETE, BREAK_INDENT, <<PATH_B, ARG_K>>)
    /\ doc[3] = Chain(DOT_PATCH, NONE, <<PATH_A, ARG_H, ARG_BODY>>)
    /\ \A p \in Occurrences(PREFIX, content) : OtherVerbAt(content, p)
    /\ converted = content

(***************************************************************************)
(* C7  Clean input is returned unchanged.                                  *)
(***************************************************************************)
\* the text holds neither the import line nor the legacy prefix
Clean(s) == Count(IMPORT_LINE, s) = 0 /\ Count(PREFIX, s) = 0

\* C7: a text that holds neither the import line nor the legacy prefix is
\* returned unchanged, by every rule and by the whole function.
C7_CleanUnchanged ==
    /\ (pc \in {"rule2", "rule3", "rule4"} /\ Clean(content)) => work = content
    /\ (Returned /\ Clean(content)) => converted = content

C7_Witness ==
    /\ Returned
    /\ Clean(content)
    /\ Len(doc) = 3
    /\ doc[1] = Text(IMPORT_NO_BREAK)
    /\ doc[2] = Text(PREFIX_UNCLOSED)
    /\ doc[3] = Text(BARE_CALLS)
    /\ converted = content

(***************************************************************************)
(* C8  A failure to open or read leaves the output as it was.              *)
(***************************************************************************)
\* C8: when opening or reading the input, or opening the output, fails, the
\* run has stopped, the output file holds what it held before the run, nothing
\* was written and nothing was printed.
C8_FailureLeavesOutput ==
    failed \in {"open_in", "read", "open_out"} =>
        /\ pc = "failed"
        /\ ~ENABLED Next
        /\ outFile = OLD_OUTPUT
        /\ \A i \in 1..Len(events) : events[i] \notin {"open_out", "write", "print"}
        /\ stdout = <<>>
        /\ held = {}

C8_Witness ==
    /\ failed = "open_out"
    /\ converted # <<>>
    /\ converted # content
    /\ outFile = OLD_OUTPUT

(***************************************************************************)
(* C9  The order of a run.                                                 *)
(***************************************************************************)
RUN_ORDER ==
    <<"open_in", "read", "close_in", "transform", "open_out", "write", "close_out",
      "print">>

\* C9: the operations of a run happen in the order open input, read, close
\* input, transform, open output, write, close output, print; at most one
\* file is open at a time; the output is opened only after the input was read
\* and closed; what is written is convert_test_file of what was read; and the
\* confirmation is printed once, after the write and the close of the output.
C9_RunOrder ==
    /\ IsPrefix(events, RUN_ORDER)
    /\ Cardinality(held) <= 1
    /\ "out" \in held => ("in" \notin held /\ content = inFile)
    /\ pc \in {"close_out", "print", "done"} => outFile = convert_test_file(inFile)
    /\ Len(stdout) <= 1
    /\ stdout # <<>> =>
          /\ stdout = <<CONFIRMATION>>
          /\ held = {}
          /\ outFile = convert_test_file(inFile)
    /\ pc = "done" => (stdout = <<CONFIRMATION>> /\ events = RUN_ORDER)

C9_Witness ==
    /\ pc = "done"
    /\ events = RUN_ORDER
    /\ stdout = <<CONFIRMATION>>
    /\ outFile # inFile
    /\ outFile # <<>>

====
